---- MODULE Spec2Model ----
(***************************************************************************)
(* Model of the XFG burn & mint STARK prover and verifier                  *)
(* (src/src/burn_mint_prover.rs, burn_mint_verifier.rs, burn_mint_air.rs). *)
(*                                                                         *)
(* Numbers.  TLC integers are 32 bits wide, the program's amounts are u64 *)
(* and its field elements are 64-bit, so every u32 / u64 / field element   *)
(* is modelled by its little-endian byte sequence (4 or 8 bytes).  A field *)
(* element is the 8 little-endian bytes of its canonical as_int().  The    *)
(* cast `x as u32` keeps the low four bytes; BaseElement::from(u32) pads   *)
(* four zero bytes.                                                        *)
(***************************************************************************)
EXTENDS Integers, Sequences, FiniteSets, TLC

VARIABLES
    w,        \* arguments of the prove_burn_mint call of this session, or NoCall
    presult,  \* what prove_burn_mint returned
    proof,    \* the StarkProof the verifier is handed, or NoProof
    vcall,    \* arguments of the last verification call, or NoCall
    vresult,  \* what the last verification call returned
    vtrail,   \* what the last verification call handed to the STARK engine
    vin,      \* validate_inputs harness: the argument tuple
    pval,     \* validate_inputs harness: the prover's answer
    vval,     \* validate_inputs harness: the verifier's answer
    ptrail,   \* the steps the prove_burn_mint call ran, in order
    hin,      \* pure-function harness: the arguments
    hout,     \* pure-function harness: the values computed from them
    scan,     \* a trace column r4 as the constraint evaluator walks it row by row
    now,      \* the system clock (SystemTime::now), in seconds
    merkle,   \* a MerkleTree, the proof taken from it and the verdict on that proof
    pkg       \* a CompleteProofPackage and what its last accessor returned

vars == <<w, presult, proof, vcall, vresult, vtrail, vin, pval, vval, ptrail, hin, hout, scan, now, merkle, pkg>>

\* the variables of the harnesses for single functions
others == <<hin, hout, scan, now, merkle, pkg>>

-----------------------------------------------------------------------------
(* Bytes and little-endian words *)

Rep(b, n) == [i \in 1..n |-> b]

\* u32::to_le_bytes for a value below 2^31
U32(n) == <<n % 256, (n \div 256) % 256, (n \div 65536) % 256, (n \div 16777216) % 256>>

\* `x as u32` on a u64 or on as_int(): the low four bytes
AsU32(x) == SubSeq(x, 1, 4)

\* BaseElement::from(u32): the value itself, below the modulus
FromU32(b4) == b4 \o <<0, 0, 0, 0>>

FZero == Rep(0, 8)
FOne == <<1, 0, 0, 0, 0, 0, 0, 0>>

\* the field modulus 2^64 - 2^32 + 1 of winterfell::math::fields::f64
FModulus == <<1, 0, 0, 0, 255, 255, 255, 255>>

\* a >= b on equal-length little-endian words
RECURSIVE GeAt(_, _, _)
GeAt(a, b, i) ==
    IF i = 0 THEN TRUE
    ELSE IF a[i] # b[i] THEN a[i] > b[i]
    ELSE GeAt(a, b, i - 1)

Ge(a, b) == GeAt(a, b, Len(a))

\* a - b for a >= b, byte by byte with borrow
RECURSIVE SubAt(_, _, _, _)
SubAt(a, b, i, borrow) ==
    IF i > Len(a) THEN <<>>
    ELSE LET d == a[i] - b[i] - borrow
         IN  <<(d + 256) % 256>> \o SubAt(a, b, i + 1, IF d < 0 THEN 1 ELSE 0)

\* field subtraction a - b (mod p) on canonical elements
FSub(a, b) ==
    IF Ge(a, b) THEN SubAt(a, b, 1, 0)
    ELSE SubAt(FModulus, SubAt(b, a, 1, 0), 1, 0)

\* a * k for a small k, byte by byte with carry; the products used stay
\* below the modulus, so no reduction takes place
RECURSIVE MulAt(_, _, _, _)
MulAt(a, k, i, carry) ==
    IF i > Len(a) THEN <<>>
    ELSE LET m == a[i] * k + carry
         IN  <<m % 256>> \o MulAt(a, k, i + 1, m \div 256)

FMulSmall(a, k) == MulAt(a, k, 1, 0)

\* A constraint value is kept as the list of its factors: the field has no
\* zero divisors, so the product is zero exactly when a factor is.
Lin(x) == <<x>>
Prod(x, y) == <<x, y>>
IsZeroValue(v) == \E i \in 1..Len(v) : v[i] = FZero

-----------------------------------------------------------------------------
(***************************************************************************)
(* Keccak256 (sha3 crate).  The digest is modelled by a deterministic      *)
(* 32-byte mixing of the pre-image bytes: two accumulators, each folding   *)
(* the bytes pairwise modulo the prime 65521, feed the first four bytes    *)
(* and the rest are derived from them.  A change of one pre-image byte     *)
(* changes both accumulators.                                              *)
(***************************************************************************)

RECURSIVE Absorb(_, _, _, _)
Absorb(pre, mult, lo, hi) ==
    IF lo > hi THEN 7
    ELSE IF lo = hi THEN (pre[lo] + 13 * lo + 1) % 65521
    ELSE LET mid == (lo + hi) \div 2
         IN  (Absorb(pre, mult, lo, mid) * mult + Absorb(pre, mult, mid + 1, hi) + 1) % 65521

Keccak256(pre) ==
    LET a == Absorb(pre, 251, 1, Len(pre))
        b == Absorb(pre, 241, 1, Len(pre))
    IN  [j \in 1..32 |->
            CASE j = 1 -> a % 256
              [] j = 2 -> a \div 256
              [] j = 3 -> b % 256
              [] j = 4 -> b \div 256
              [] OTHER -> ((a + j * b) * j) % 256]

\* u32::from_le_bytes([hash[0], hash[1], hash[2], hash[3]])
First4(hash) == SubSeq(hash, 1, 4)

TagRecipient == <<114, 101, 99, 105, 112, 105, 101, 110, 116>>
TagNullifier == <<110, 117, 108, 108, 105, 102, 105, 101, 114>>
TagEthereumRecipient ==
    <<101, 116, 104, 101, 114, 101, 117, 109, 45, 114, 101, 99, 105, 112, 105, 101, 110, 116>>
TagBridge ==
    <<102, 117, 101, 103, 111, 45, 116, 111, 45, 104, 101, 97, 116, 45, 98, 114, 105, 100, 103, 101>>
TagBurnTransaction ==
    <<102, 117, 101, 103, 111, 45, 98, 117, 114, 110, 45, 116, 114, 97, 110, 115, 97, 99, 116, 105, 111, 110>>
TagCommitment ==
    <<104, 101, 97, 116, 45, 99, 111, 109, 109, 105, 116, 109, 101, 110, 116, 45, 118, 49>>

-----------------------------------------------------------------------------
(* Amounts (u64, atomic units) *)

Amt0 == Rep(0, 8)
Amt8e6 == <<0, 18, 122, 0, 0, 0, 0, 0>>        \* 8_000_000
Amt16e6 == <<0, 36, 244, 0, 0, 0, 0, 0>>       \* 16_000_000
Amt8e8 == <<0, 8, 175, 47, 0, 0, 0, 0>>        \* 800_000_000
Amt8e9 == <<0, 80, 214, 220, 1, 0, 0, 0>>      \* 8_000_000_000
Amt8e9Low == <<0, 80, 214, 220, 0, 0, 0, 0>>   \* 8_000_000_000 mod 2^32

-----------------------------------------------------------------------------
(* Results *)

\* Result<T>: kind "ok" with the value, kind "err" with the XfgStarkError variant,
\* the check that failed and the message, or kind "panic"
Ok(v) ==
    [kind |-> "ok", variant |-> "", check |-> "", msg |-> "", value |-> v, list |-> <<>>]
OkList(l) ==
    [kind |-> "ok", variant |-> "", check |-> "", msg |-> "", value |-> "vec", list |-> l]
Err(variant, check, msg) ==
    [kind |-> "err", variant |-> variant, check |-> check, msg |-> msg, value |-> "",
     list |-> <<>>]
Panic(where) ==
    [kind |-> "panic", variant |-> "", check |-> where, msg |-> "", value |-> "",
     list |-> <<>>]
NoResult ==
    [kind |-> "none", variant |-> "", check |-> "", msg |-> "", value |-> "", list |-> <<>>]

\* validate_inputs with the mint/burn equality check left out
ProverValidateInputs_MintUnchecked(burn_amount, mint_amount, txn_hash, recipient_address, commitment_version) ==
    IF commitment_version = 1 /\ burn_amount # Amt8e6 /\ burn_amount # Amt8e9
    THEN Err("CryptoError", "tier", "Version 1: Burn amount must be exactly 0.8 XFG or 800 XFG")
    ELSE IF commitment_version = 2 /\ burn_amount # Amt8e6 /\ burn_amount # Amt8e8
            /\ burn_amount # Amt8e9
    THEN Err("CryptoError", "tier",
             "Version 2: Burn amount must be exactly 0.8 XFG, 80 XFG, or 800 XFG")
    ELSE IF commitment_version \notin {1, 2}
    THEN Err("CryptoError", "version", "Unsupported commitment version")
    ELSE IF txn_hash = Rep(0, 8)
    THEN Err("CryptoError", "txn_hash", "Transaction hash must be greater than 0")
    ELSE IF Len(recipient_address) # 20
    THEN Err("CryptoError", "recipient", "Recipient address must be exactly 20 bytes")
    ELSE Ok("unit")

\* XfgBurnMintProver::validate_inputs
ProverValidateInputs(burn_amount, mint_amount, txn_hash, recipient_address, commitment_version) ==
    IF commitment_version = 1 /\ burn_amount # Amt8e6 /\ burn_amount # Amt8e9
    THEN Err("CryptoError", "tier", "Version 1: Burn amount must be exactly 0.8 XFG or 800 XFG")
    ELSE IF commitment_version = 1 /\ mint_amount # burn_amount
    THEN Err("CryptoError", "mint", "Mint amount doesn't match expected")
    ELSE IF commitment_version = 2 /\ burn_amount # Amt8e6 /\ burn_amount # Amt8e8
            /\ burn_amount # Amt8e9
    THEN Err("CryptoError", "tier",
             "Version 2: Burn amount must be exactly 0.8 XFG, 80 XFG, or 800 XFG")
    ELSE IF commitment_version = 2 /\ mint_amount # burn_amount
    THEN Err("CryptoError", "mint", "Mint amount doesn't match expected")
    ELSE IF commitment_version \notin {1, 2}
    THEN Err("CryptoError", "version", "Unsupported commitment version")
    ELSE IF txn_hash = Rep(0, 8)
    THEN Err("CryptoError", "txn_hash", "Transaction hash must be greater than 0")
    ELSE IF Len(recipient_address) # 20
    THEN Err("CryptoError", "recipient", "Recipient address must be exactly 20 bytes")
    ELSE Ok("unit")

\* the verifier's validate_inputs with the zero-txn-hash check left out
VerifierValidateInputs_TxnUnchecked(burn_amount, mint_amount, txn_hash, recipient_address, commitment_version) ==
    ProverValidateInputs(burn_amount, mint_amount, FOne, recipient_address, commitment_version)

\* XfgBurnMintVerifier::validate_inputs
VerifierValidateInputs(burn_amount, mint_amount, txn_hash, recipient_address, commitment_version) ==
    IF commitment_version = 1 /\ burn_amount # Amt8e6 /\ burn_amount # Amt8e9
    THEN Err("CryptoError", "tier", "Version 1: Burn amount must be exactly 0.8 XFG or 800 XFG")
    ELSE IF commitment_version = 1 /\ mint_amount # burn_amount
    THEN Err("CryptoError", "mint", "Mint amount must equal burn amount for 1:1 conversion")
    ELSE IF commitment_version = 2 /\ burn_amount # Amt8e6 /\ burn_amount # Amt8e8
            /\ burn_amount # Amt8e9
    THEN Err("CryptoError", "tier",
             "Version 2: Burn amount must be exactly 0.8 XFG, 80 XFG, or 800 XFG")
    ELSE IF commitment_version = 2 /\ mint_amount # burn_amount
    THEN Err("CryptoError", "mint", "Mint amount must equal burn amount for 1:1 conversion")
    ELSE IF commitment_version \notin {1, 2}
    THEN Err("CryptoError", "version", "Unsupported commitment version")
    ELSE IF mint_amount = Amt0
    THEN Err("CryptoError", "mint_zero", "Mint amount must be greater than 0")
    ELSE IF txn_hash = Rep(0, 8)
    THEN Err("CryptoError", "txn_hash", "Transaction hash must be greater than 0")
    ELSE IF Len(recipient_address) # 20
    THEN Err("CryptoError", "recipient", "Recipient address must be exactly 20 bytes")
    ELSE Ok("unit")

-----------------------------------------------------------------------------
(* Public inputs and the AIR (burn_mint_air.rs) *)

\* struct BurnMintPublicInputs, built field by field
PublicInputs(burn, mint, txn, rcp, t0, t1, t2, t3, net, chain, ver) ==
    [burn_amount |-> burn, mint_amount |-> mint, txn_hash |-> txn,
     recipient_hash |-> rcp, state |-> FromU32(U32(0)),
     tx_prefix_hash_0 |-> t0, tx_prefix_hash_1 |-> t1,
     tx_prefix_hash_2 |-> t2, tx_prefix_hash_3 |-> t3,
     network_id |-> net, target_chain_id |-> chain, commitment_version |-> ver]

\* ToElements for BurnMintPublicInputs
to_elements(pi) ==
    <<pi.burn_amount, pi.mint_amount, pi.txn_hash, pi.recipient_hash, pi.state,
      pi.tx_prefix_hash_0, pi.tx_prefix_hash_1, pi.tx_prefix_hash_2, pi.tx_prefix_hash_3,
      pi.network_id, pi.target_chain_id, pi.commitment_version>>

\* XfgBurnMintAir::new_with_secret: seven degrees, AirContext::new(.., 7, ..)
new_with_secret(public_inputs, secret) ==
    [num_constraints |-> 7, num_assertions |-> 7,
     public_inputs |-> public_inputs, secret |-> secret]

\* Air for XfgBurnMintAir::new: six degrees, AirContext::new(.., 6, ..), fixed secret
AirNew(public_inputs) ==
    [num_constraints |-> 6, num_assertions |-> 6,
     public_inputs |-> public_inputs, secret |-> FromU32(U32(67305985))]

\* compute_nullifier with network_id appended to the pre-image
nullifier_preimage_WithNetwork(air, secret) ==
    secret \o TagNullifier \o air.public_inputs.burn_amount \o air.public_inputs.network_id

\* XfgBurnMintAir::compute_nullifier: the bytes fed to the hasher, in order
nullifier_preimage(air, secret) ==
    secret \o TagNullifier \o air.public_inputs.burn_amount

\* compute_nullifier folding in the system clock, as compute_transaction_hash does
compute_nullifier_Timestamped(air, secret) ==
    FromU32(First4(Keccak256(nullifier_preimage(air, secret) \o U32(now) \o Rep(0, 4))))

\* XfgBurnMintAir::compute_nullifier
compute_nullifier(air, secret) ==
    FromU32(First4(Keccak256(nullifier_preimage(air, secret))))

\* XfgBurnMintAir::compute_transaction_hash: folds in SystemTime::now() as seconds
compute_transaction_hash(air) ==
    Keccak256(air.public_inputs.burn_amount \o air.public_inputs.recipient_hash
              \o U32(now) \o Rep(0, 4) \o TagBurnTransaction)

\* XfgBurnMintAir::compute_recipient_hash (the 32-byte digest)
air_compute_recipient_hash(air) ==
    Keccak256(air.public_inputs.recipient_hash \o TagEthereumRecipient \o TagBridge)

\* compute_commitment with network_id left out of the pre-image
commitment_preimage_NoNetwork(air, secret) ==
    LET pi == air.public_inputs
    IN  secret
        \o pi.burn_amount \o pi.mint_amount
        \o pi.tx_prefix_hash_0 \o pi.tx_prefix_hash_1
        \o pi.tx_prefix_hash_2 \o pi.tx_prefix_hash_3
        \o air_compute_recipient_hash(air)
        \o pi.target_chain_id \o pi.commitment_version
        \o TagCommitment

\* XfgBurnMintAir::compute_commitment: the bytes fed to the hasher, in order
commitment_preimage(air, secret) ==
    LET pi == air.public_inputs
    IN  secret
        \o pi.burn_amount \o pi.mint_amount
        \o pi.tx_prefix_hash_0 \o pi.tx_prefix_hash_1
        \o pi.tx_prefix_hash_2 \o pi.tx_prefix_hash_3
        \o air_compute_recipient_hash(air)
        \o pi.network_id \o pi.target_chain_id \o pi.commitment_version
        \o TagCommitment

\* XfgBurnMintAir::compute_commitment
compute_commitment(air, secret) == FromU32(First4(Keccak256(commitment_preimage(air, secret))))

\* XfgBurnMintAir::validate_burn_amount
validate_burn_amount(burn_amount) ==
    LET standard_burn == FromU32(U32(8000000))
        large_burn_threshold == FMulSmall(standard_burn, 1000)
    IN  Prod(FSub(burn_amount, standard_burn), FSub(burn_amount, large_burn_threshold))

\* XfgBurnMintAir::validate_mint_proportionality
validate_mint_proportionality(burn_amount, mint_amount) == Lin(FSub(mint_amount, burn_amount))

\* validate_state_transitions also vanishing on a difference of 2
validate_state_transitions_AllowsSkip(current_state, next_state) ==
    LET state_diff == FSub(next_state, current_state)
    IN  <<state_diff, FSub(state_diff, FOne), FSub(state_diff, FromU32(U32(2)))>>

\* XfgBurnMintAir::validate_state_transitions
validate_state_transitions(current_state, next_state) ==
    LET state_diff == FSub(next_state, current_state)
    IN  Prod(state_diff, FSub(state_diff, FOne))

\* XfgBurnMintAir::validate_nullifier_consistency
validate_nullifier_consistency(air, trace_nullifier) ==
    Lin(FSub(trace_nullifier, compute_nullifier(air, air.secret)))

\* Air::evaluate_transition: the seven results written for one frame
evaluate_transition(air, current, next) ==
    <<validate_burn_amount(current[1]),
      validate_mint_proportionality(current[1], current[2]),
      Lin(FSub(current[3], FromU32(AsU32(air.public_inputs.txn_hash)))),
      Lin(FSub(current[4], FromU32(AsU32(air.public_inputs.recipient_hash)))),
      validate_state_transitions(current[5], next[5]),
      validate_nullifier_consistency(air, current[6]),
      Lin(FSub(current[7], compute_commitment(air, air.secret)))>>

\* Air::get_assertions: <<column, step, value>>
get_assertions(air) ==
    <<<<0, 0, air.public_inputs.burn_amount>>,
      <<1, 0, air.public_inputs.mint_amount>>,
      <<2, 0, air.public_inputs.txn_hash>>,
      <<3, 0, air.public_inputs.recipient_hash>>,
      <<4, 0, FromU32(U32(0))>>,
      <<5, 0, compute_nullifier(air, air.secret)>>,
      <<6, 0, compute_commitment(air, air.secret)>>,
      <<4, 63, FromU32(U32(3))>>>>

TraceLength == 64

\* build_trace with the phase boundaries one step late (step <= 16, ..)
build_trace_LatePhase(air) ==
    LET nullifier == compute_nullifier(air, air.secret)
        commitment == compute_commitment(air, air.secret)
        state(step) == IF step <= 16 THEN 0 ELSE IF step <= 32 THEN 1
                       ELSE IF step <= 48 THEN 2 ELSE 3
    IN  [step \in 0..(TraceLength - 1) |->
            <<air.public_inputs.burn_amount, air.public_inputs.mint_amount,
              air.public_inputs.txn_hash, air.public_inputs.recipient_hash,
              FromU32(U32(state(step))), nullifier, commitment>>]

\* XfgBurnMintAir::build_trace: rows 0..63, each <<r0, .., r6>>
build_trace(air) ==
    LET nullifier == compute_nullifier(air, air.secret)
        commitment == compute_commitment(air, air.secret)
        state(step) == IF step < 16 THEN 0 ELSE IF step < 32 THEN 1
                       ELSE IF step < 48 THEN 2 ELSE 3
    IN  [step \in 0..(TraceLength - 1) |->
            <<air.public_inputs.burn_amount, air.public_inputs.mint_amount,
              air.public_inputs.txn_hash, air.public_inputs.recipient_hash,
              FromU32(U32(state(step))), nullifier, commitment>>]

\* TraceTable::new(width, length): the columns are allocated and their
\* contents left uninitialised, so the table holds whatever the memory held
UninitTraceTables(width, length) ==
    {[step \in 0..(length - 1) |-> [column \in 1..width |-> fill]] :
        fill \in {FZero, FromU32(Rep(170, 4))}}

\* generate_burn_mint_trace: the rows are collected in trace_data, and the
\* table returned is TraceTable::new(7, trace_data.len())
generate_burn_mint_trace(burn_amount, mint_amount, txn_hash, recipient_hash, secret, air) ==
    LET state(step) == IF step < 16 THEN 0 ELSE IF step < 32 THEN 1
                       ELSE IF step < 48 THEN 2 ELSE 3
        trace_data == [step \in 0..63 |->
            <<FromU32(AsU32(burn_amount)), FromU32(AsU32(mint_amount)),
              FromU32(AsU32(txn_hash)), FromU32(AsU32(recipient_hash)),
              FromU32(U32(state(step))),
              compute_nullifier(air, secret), compute_commitment(air, secret)>>]
    IN  UninitTraceTables(7, Cardinality(DOMAIN trace_data))

-----------------------------------------------------------------------------
(* The STARK engine (winterfell), by its contract: a proof stands for a    *)
(* committed trace and the constraint system it was proved under; the      *)
(* verifier accepts exactly when the constraint system it rebuilds from    *)
(* its own public inputs is that one and the trace satisfies it.           *)

\* every transition constraint vanishes on every pair of consecutive rows
TransitionsHold(air, trace) ==
    \A frame \in {<<trace[i], trace[i + 1]>> : i \in 0..(TraceLength - 2)} :
        LET result == evaluate_transition(air, frame[1], frame[2])
        IN  \A k \in 1..7 : IsZeroValue(result[k])

\* every boundary assertion holds
AssertionsHold(air, trace) ==
    LET assertions == get_assertions(air)
    IN  \A k \in 1..Len(assertions) :
            trace[assertions[k][2]][assertions[k][1] + 1] = assertions[k][3]

TraceSatisfies(air, trace) == TransitionsHold(air, trace) /\ AssertionsHold(air, trace)

NoProof == [made |-> FALSE, wellformed |-> FALSE, pub_inputs |-> <<>>, num_constraints |-> 0,
            num_assertions |-> 0, trace |-> <<>>, valid |-> FALSE]

\* StarkProof::new_dummy(): a well-formed proof object of no trace
DummyProof == [made |-> TRUE, wellformed |-> TRUE, pub_inputs |-> <<>>, num_constraints |-> 0,
               num_assertions |-> 0, trace |-> <<>>, valid |-> FALSE]

\* a StarkProof whose serialised parts the engine cannot parse
MalformedProof == [made |-> TRUE, wellformed |-> FALSE, pub_inputs |-> <<>>,
                   num_constraints |-> 0, num_assertions |-> 0, trace |-> <<>>,
                   valid |-> FALSE]

MakeProof(air, trace, valid) ==
    [made |-> TRUE, wellformed |-> TRUE, pub_inputs |-> to_elements(air.public_inputs),
     num_constraints |-> air.num_constraints, num_assertions |-> air.num_assertions,
     trace |-> trace, valid |-> valid]

\* Prover::prove: a satisfying trace gives a proof; otherwise the engine
\* fails (checked builds) or emits a proof that no verifier accepts
WinterfellProve(air, trace) ==
    IF TraceSatisfies(air, trace) THEN {<<Ok("proof"), MakeProof(air, trace, TRUE)>>}
    ELSE {<<Err("ProverError", "engine", "constraints not satisfied"), NoProof>>,
          <<Ok("proof"), MakeProof(air, trace, FALSE)>>}

\* winterfell::verify::<XfgBurnMintAir, ..>(proof, public_inputs, options)
WinterfellVerify(p, public_inputs) ==
    LET air == AirNew(public_inputs)
    IN  IF ~p.wellformed
        THEN Err("VerifierError", "malformed", "proof deserialization error")
        ELSE IF /\ p.made /\ p.valid
                /\ p.num_constraints = air.num_constraints
                /\ p.num_assertions = air.num_assertions
                /\ p.pub_inputs = to_elements(public_inputs)
                /\ TraceSatisfies(air, p.trace)
        THEN Ok("unit")
        ELSE Err("VerifierError", "engine", "verification failed")

-----------------------------------------------------------------------------
(* The prover (burn_mint_prover.rs) *)

\* XfgBurnMintProver::secret_to_field_element: the result and, when ok, the element
secret_to_field_element(secret) ==
    IF Len(secret) < 4
    THEN [res |-> Err("CryptoError", "secret", "Secret must be at least 4 bytes"),
          element |-> FZero]
    ELSE IF Len(secret) < 8            \* bytes.copy_from_slice(&secret[..8])
    THEN [res |-> Panic("secret[..8]"), element |-> FZero]
    ELSE [res |-> Ok("element"), element |-> FromU32(SubSeq(secret, 1, 4))]

\* XfgBurnMintProver::compute_recipient_hash
prover_compute_recipient_hash(recipient_address) ==
    First4(Keccak256(recipient_address \o TagRecipient))

\* the four limbs prove_burn_mint extracts from the tx prefix hash
prover_tx_prefix_limbs(tx_prefix_hash) ==
    <<SubSeq(tx_prefix_hash, 1, 4), SubSeq(tx_prefix_hash, 5, 8),
      SubSeq(tx_prefix_hash, 9, 12), SubSeq(tx_prefix_hash, 13, 16)>>

\* the BurnMintPublicInputs prove_burn_mint builds
prover_public_inputs(burn_amount, mint_amount, tx_prefix_hash, recipient_address, network_id, target_chain_id, commitment_version) ==
    LET legacy_txn_hash == SubSeq(tx_prefix_hash, 1, 8)
        recipient_hash == prover_compute_recipient_hash(recipient_address)
        limbs == prover_tx_prefix_limbs(tx_prefix_hash)
    IN  PublicInputs(FromU32(AsU32(burn_amount)), FromU32(AsU32(mint_amount)),
                     FromU32(AsU32(legacy_txn_hash)), FromU32(recipient_hash),
                     FromU32(limbs[1]), FromU32(limbs[2]), FromU32(limbs[3]), FromU32(limbs[4]),
                     FromU32(U32(network_id)), FromU32(U32(target_chain_id)),
                     FromU32(U32(commitment_version)))

\* prove_burn_mint building the trace and calling the engine before it validates
prove_burn_mint_TraceFirst(burn_amount, mint_amount, tx_prefix_hash, recipient_address, secret, network_id, target_chain_id, commitment_version) ==
    LET legacy_txn_hash == SubSeq(tx_prefix_hash, 1, 8)
        checked == ProverValidateInputs(burn_amount, mint_amount, legacy_txn_hash,
                                        recipient_address, commitment_version)
        secret_element == secret_to_field_element(secret)
        public_inputs == prover_public_inputs(burn_amount, mint_amount, tx_prefix_hash,
                                              recipient_address, network_id,
                                              target_chain_id, commitment_version)
        air == new_with_secret(public_inputs, secret_element.element)
        trace == build_trace(air)
        steps == <<"secret_to_field_element", "compute_recipient_hash", "new_with_secret",
                   "build_trace", "prove", "validate_inputs">>
    IN  IF secret_element.res.kind # "ok"
        THEN {<<secret_element.res, NoProof, <<"secret_to_field_element">>>>}
        ELSE IF checked.kind # "ok" THEN {<<checked, NoProof, steps>>}
        ELSE {<<IF o[1].kind = "ok" THEN o[1]
                ELSE Err("CryptoError", "engine", "Prover error"), o[2], steps>> :
                    o \in WinterfellProve(air, trace)}

\* XfgBurnMintProver::prove_burn_mint: the possible outcomes <<result, proof, the
\* steps run in order>>
prove_burn_mint(burn_amount, mint_amount, tx_prefix_hash, recipient_address, secret, network_id, target_chain_id, commitment_version) ==
    LET legacy_txn_hash == SubSeq(tx_prefix_hash, 1, 8)
        checked == ProverValidateInputs(burn_amount, mint_amount, legacy_txn_hash,
                                        recipient_address, commitment_version)
        secret_element == secret_to_field_element(secret)
        public_inputs == prover_public_inputs(burn_amount, mint_amount, tx_prefix_hash,
                                              recipient_address, network_id,
                                              target_chain_id, commitment_version)
        air == new_with_secret(public_inputs, secret_element.element)
        trace == build_trace(air)
    IN  IF checked.kind # "ok" THEN {<<checked, NoProof, <<"validate_inputs">>>>}
        ELSE IF secret_element.res.kind # "ok"
        THEN {<<secret_element.res, NoProof,
                <<"validate_inputs", "secret_to_field_element">>>>}
        ELSE {<<IF o[1].kind = "ok" THEN o[1]
                ELSE Err("CryptoError", "engine", "Prover error"), o[2],
                <<"validate_inputs", "secret_to_field_element", "compute_recipient_hash",
                  "new_with_secret", "build_trace", "prove">>>> :
                    o \in WinterfellProve(air, trace)}

-----------------------------------------------------------------------------
(* The verifier (burn_mint_verifier.rs) *)

\* XfgBurnMintVerifier::compute_recipient_hash
verifier_compute_recipient_hash(recipient_address) ==
    First4(Keccak256(recipient_address \o TagRecipient))

\* the BurnMintPublicInputs verify_burn_mint builds
verifier_public_inputs(burn_amount, mint_amount, txn_hash, recipient_address, network_id, target_chain_id, commitment_version) ==
    LET recipient_hash == verifier_compute_recipient_hash(recipient_address)
    IN  PublicInputs(FromU32(AsU32(burn_amount)), FromU32(AsU32(mint_amount)),
                     FromU32(AsU32(txn_hash)), FromU32(recipient_hash),
                     FromU32(U32(0)), FromU32(U32(0)), FromU32(U32(0)), FromU32(U32(0)),
                     FromU32(U32(network_id)), FromU32(U32(target_chain_id)),
                     FromU32(U32(commitment_version)))

\* XfgBurnMintVerifier::verify_with_winterfell
verify_with_winterfell(p, public_inputs) == WinterfellVerify(p, public_inputs)

\* the match with its Err arm answering true
verdict_ErrAsTrue(engine_result) == Ok("true")

\* the match on verify_with_winterfell's result: Ok(_) => Ok(true), Err(e) => Ok(false)
verdict(engine_result) == IF engine_result.kind = "ok" THEN Ok("true") ELSE Ok("false")

\* verify_burn_mint answering true once validation passes, the engine not consulted
verify_burn_mint_EngineSkipped(p, burn_amount, mint_amount, txn_hash, recipient_address, network_id, target_chain_id, commitment_version) ==
    LET checked == VerifierValidateInputs(burn_amount, mint_amount, txn_hash,
                                          recipient_address, commitment_version)
    IN  IF checked.kind # "ok" THEN checked ELSE Ok("true")

\* XfgBurnMintVerifier::verify_burn_mint
verify_burn_mint(p, burn_amount, mint_amount, txn_hash, recipient_address, network_id, target_chain_id, commitment_version) ==
    LET checked == VerifierValidateInputs(burn_amount, mint_amount, txn_hash,
                                          recipient_address, commitment_version)
        public_inputs == verifier_public_inputs(burn_amount, mint_amount, txn_hash,
                                                recipient_address, network_id,
                                                target_chain_id, commitment_version)
    IN  IF checked.kind # "ok" THEN checked
        ELSE verdict(verify_with_winterfell(p, public_inputs))

\* XfgBurnMintVerifier::validate_public_inputs
validate_public_inputs(public_inputs) ==
    IF public_inputs.burn_amount = FZero
    THEN Err("CryptoError", "burn_zero", "Burn amount must be greater than 0")
    ELSE IF public_inputs.mint_amount = FZero
    THEN Err("CryptoError", "mint_zero", "Mint amount must be greater than 0")
    ELSE IF public_inputs.txn_hash = FZero
    THEN Err("CryptoError", "txn_hash", "Transaction hash must be greater than 0")
    ELSE Ok("unit")

\* XfgBurnMintVerifier::verify_with_public_inputs
verify_with_public_inputs(p, public_inputs) ==
    LET checked == validate_public_inputs(public_inputs)
    IN  IF checked.kind # "ok" THEN checked
        ELSE verdict(verify_with_winterfell(p, public_inputs))

\* the verdicts of the items before the first item whose validation fails, and
\* that error: the loop body `self.verify_with_public_inputs(proof, pi)?`
RECURSIVE batch_loop(_, _, _)
batch_loop(items, i, results) ==
    IF i > Len(items) THEN OkList(results)
    ELSE LET result == verify_with_public_inputs(items[i][1], items[i][2])
         IN  IF result.kind # "ok" THEN result
             ELSE batch_loop(items, i + 1, Append(results, result.value))

\* XfgBurnMintVerifier::batch_verify
batch_verify(proofs_and_inputs) == batch_loop(proofs_and_inputs, 1, <<>>)

\* BatchBurnMintVerifier::verify_batch
verify_batch(proofs_and_inputs) == batch_loop(proofs_and_inputs, 1, <<>>)

\* the public inputs a batch hands to the engine: those of the items reached
\* whose validation passed
RECURSIVE batch_engine_inputs(_, _)
batch_engine_inputs(items, i) ==
    IF i > Len(items) THEN <<>>
    ELSE IF validate_public_inputs(items[i][2]).kind # "ok" THEN <<>>
    ELSE <<items[i][2]>> \o batch_engine_inputs(items, i + 1)

\* what the engine answered for each of those records
RECURSIVE batch_engine_results(_, _)
batch_engine_results(items, i) ==
    IF i > Len(items) THEN <<>>
    ELSE IF validate_public_inputs(items[i][2]).kind # "ok" THEN <<>>
    ELSE <<verify_with_winterfell(items[i][1], items[i][2])>>
         \o batch_engine_results(items, i + 1)

-----------------------------------------------------------------------------
(* Inputs *)

\* a 32-byte tx prefix hash: byte 0 is b0, byte `at` (0-based) is v, the rest 0
TxHash(b0, at, v) == [k \in 1..32 |-> IF k = 1 THEN b0 ELSE IF k = at + 1 THEN v ELSE 0]

TxS1 == TxHash(1, 1, 0)      \* [0; 32] except first byte 0x01
TxB5 == TxHash(1, 5, 9)      \* differs from TxS1 in byte 5
TxB9 == TxHash(1, 9, 5)      \* differs from TxS1 in byte 9
TxB20 == TxHash(1, 20, 7)    \* differs from TxS1 in byte 20
TxZero == Rep(0, 32)

TxHashes == {TxS1, TxB5, TxB20, TxZero}
LegacyHashes == {SubSeq(t, 1, 8) : t \in TxHashes}

R12 == Rep(18, 20)                       \* [0x12; 20]
R13 == [R12 EXCEPT ![1] = 19]            \* byte 0 flipped to 0x13
R19 == Rep(18, 19)                       \* 19 bytes
Recipients == {R12, R13, R19}

S32 == Rep(42, 32)                       \* [0x2A; 32]
S1234 == [i \in 1..32 |-> i]             \* starts 1, 2, 3, 4
Secrets == {S32, S1234, Rep(42, 8), Rep(42, 7), Rep(42, 4), Rep(42, 3)}

Amounts == {Amt8e6, Amt16e6, Amt8e8, Amt8e9}
Mints(burn) == {burn, Amt0, Amt8e6}
Versions == {1, 2, 3}
NetChains == {<<4, 42161>>, <<5, 42161>>, <<4, 1>>}

MaxBatch == 2

-----------------------------------------------------------------------------
(***************************************************************************)
(* State machine: one prove_burn_mint call, then one verification call on  *)
(* the proof it returned.  Prover and verifier keep no state between       *)
(* calls, so further calls would add nothing.                              *)
(***************************************************************************)

NoW == [called |-> FALSE, burn |-> Amt0, mint |-> Amt0, tx |-> TxZero, recipient |-> <<>>,
        secret |-> <<>>, net |-> 0, chain |-> 0, ver |-> 0]
\* given: which proof the call was handed ("returned": the one prove_burn_mint returned)
NoVCall == [entry |-> "none", given |-> "none", args |-> <<>>]
NoTrail == [has_address |-> FALSE, address |-> <<>>, engine_inputs |-> <<>>,
            engine_results |-> <<>>]
NoHin == [chosen |-> FALSE]
NoHout == [done |-> FALSE]
NoScan == [started |-> FALSE]
NoTree == [built |-> FALSE]
NoPackage == [created |-> FALSE]
NoVin == [chosen |-> FALSE, burn |-> Amt0, mint |-> Amt0, txn |-> Rep(0, 8),
          recipient |-> <<>>, ver |-> 0]

Init ==
    /\ w = NoW
    /\ presult = NoResult
    /\ proof = NoProof
    /\ vcall = NoVCall
    /\ vresult = NoResult
    /\ vtrail = NoTrail
    /\ vin = NoVin
    /\ pval = NoResult
    /\ vval = NoResult
    /\ ptrail = <<>>
    /\ hin = NoHin
    /\ hout = NoHout
    /\ scan = NoScan
    /\ now = 0
    /\ merkle = NoTree
    /\ pkg = NoPackage

ProveBurnMint ==
    /\ ~w.called
    /\ \E burn \in Amounts, tx \in TxHashes, recipient \in Recipients, secret \in Secrets,
          nc \in NetChains, ver \in Versions :
         \E mint \in Mints(burn) :
           \E o \in prove_burn_mint(burn, mint, tx, recipient, secret, nc[1], nc[2], ver) :
              /\ w' = [called |-> TRUE, burn |-> burn, mint |-> mint, tx |-> tx,
                       recipient |-> recipient, secret |-> secret,
                       net |-> nc[1], chain |-> nc[2], ver |-> ver]
              /\ presult' = o[1]
              /\ proof' = o[2]
              /\ ptrail' = o[3]
    /\ UNCHANGED <<vcall, vresult, vtrail, vin, pval, vval, others>>

VerifyBurnMint ==
    /\ proof.made
    /\ vcall.entry = "none"
    /\ \E burn \in Amounts, txn \in LegacyHashes, recipient \in Recipients,
          nc \in NetChains, ver \in Versions :
         \E mint \in Mints(burn) :
            /\ vcall' = [entry |-> "verify_burn_mint", given |-> "returned",
                         args |-> [burn |-> burn, mint |-> mint, txn_hash |-> txn,
                                   recipient |-> recipient, net |-> nc[1], chain |-> nc[2],
                                   ver |-> ver]]
            /\ vresult' = verify_burn_mint(proof, burn, mint, txn, recipient,
                                           nc[1], nc[2], ver)
            /\ vtrail' = [has_address |-> TRUE, address |-> recipient,
                          engine_inputs |->
                             IF VerifierValidateInputs(burn, mint, txn, recipient, ver).kind
                                    = "ok"
                             THEN <<verifier_public_inputs(burn, mint, txn, recipient,
                                                           nc[1], nc[2], ver)>>
                             ELSE <<>>,
                          engine_results |->
                             IF VerifierValidateInputs(burn, mint, txn, recipient, ver).kind
                                    = "ok"
                             THEN <<verify_with_winterfell(proof,
                                        verifier_public_inputs(burn, mint, txn, recipient,
                                                               nc[1], nc[2], ver))>>
                             ELSE <<>>]
    /\ UNCHANGED <<w, presult, proof, vin, pval, vval, ptrail, others>>

\* verify_burn_mint handed a proof the prover did not return, with the public
\* values of the proved tuple
VerifyForeignProof ==
    /\ proof.made
    /\ vcall.entry = "none"
    /\ \E p \in {MalformedProof, DummyProof} :
         LET given == IF p = MalformedProof THEN "malformed" ELSE "dummy"
             txn == SubSeq(w.tx, 1, 8)
             public_inputs == verifier_public_inputs(w.burn, w.mint, txn, w.recipient,
                                                     w.net, w.chain, w.ver)
         IN  /\ vcall' = [entry |-> "verify_burn_mint", given |-> given,
                          args |-> [burn |-> w.burn, mint |-> w.mint, txn_hash |-> txn,
                                    recipient |-> w.recipient, net |-> w.net,
                                    chain |-> w.chain, ver |-> w.ver]]
             /\ vresult' = verify_burn_mint(p, w.burn, w.mint, txn, w.recipient,
                                            w.net, w.chain, w.ver)
             /\ vtrail' = [has_address |-> TRUE, address |-> w.recipient,
                           engine_inputs |-> <<public_inputs>>,
                           engine_results |-> <<verify_with_winterfell(p, public_inputs)>>]
    /\ UNCHANGED <<w, presult, proof, vin, pval, vval, ptrail, others>>

\* the public-input records a caller may hand over next to the proof
CallerPublicInputs ==
    LET honest == prover_public_inputs(w.burn, w.mint, w.tx, w.recipient,
                                       w.net, w.chain, w.ver)
    IN  {honest,
         [honest EXCEPT !.recipient_hash = FromU32(U32(67890))],
         [honest EXCEPT !.burn_amount = FZero],
         [honest EXCEPT !.commitment_version = FromU32(U32(3))]}

VerifyWithPublicInputs ==
    /\ proof.made
    /\ vcall.entry = "none"
    /\ \E public_inputs \in CallerPublicInputs :
         /\ vcall' = [entry |-> "verify_with_public_inputs", given |-> "returned",
                      args |-> <<public_inputs>>]
         /\ vresult' = verify_with_public_inputs(proof, public_inputs)
         /\ vtrail' = [has_address |-> FALSE, address |-> <<>>,
                       engine_inputs |->
                          IF validate_public_inputs(public_inputs).kind = "ok"
                          THEN <<public_inputs>> ELSE <<>>,
                       engine_results |->
                          IF validate_public_inputs(public_inputs).kind = "ok"
                          THEN <<verify_with_winterfell(proof, public_inputs)>> ELSE <<>>]
    /\ UNCHANGED <<w, presult, proof, vin, pval, vval, ptrail, others>>

\* the items of a batch: the proof with each record, and a proof of no trace
BatchItems ==
    {<<proof, pi>> : pi \in CallerPublicInputs}
        \cup {<<DummyProof, prover_public_inputs(w.burn, w.mint, w.tx, w.recipient,
                                                 w.net, w.chain, w.ver)>>}

Batches == UNION {[1..n -> BatchItems] : n \in 1..MaxBatch}

BatchVerify ==
    /\ proof.made
    /\ vcall.entry = "none"
    /\ \E items \in Batches :
         /\ vcall' = [entry |-> "batch_verify", given |-> "items", args |-> items]
         /\ vresult' = batch_verify(items)
         /\ vtrail' = [has_address |-> FALSE, address |-> <<>>,
                       engine_inputs |-> batch_engine_inputs(items, 1),
                       engine_results |-> batch_engine_results(items, 1)]
    /\ UNCHANGED <<w, presult, proof, vin, pval, vval, ptrail, others>>

VerifyBatch ==
    /\ proof.made
    /\ vcall.entry = "none"
    /\ \E items \in Batches :
         /\ vcall' = [entry |-> "verify_batch", given |-> "items", args |-> items]
         /\ vresult' = verify_batch(items)
         /\ vtrail' = [has_address |-> FALSE, address |-> <<>>,
                       engine_inputs |-> batch_engine_inputs(items, 1),
                       engine_results |-> batch_engine_results(items, 1)]
    /\ UNCHANGED <<w, presult, proof, vin, pval, vval, ptrail, others>>

Next ==
    \/ ProveBurnMint
    \/ VerifyBurnMint
    \/ VerifyForeignProof
    \/ VerifyWithPublicInputs
    \/ BatchVerify
    \/ VerifyBatch

Spec == Init /\ [][Next]_vars

-----------------------------------------------------------------------------
(***************************************************************************)
(* validate_inputs on its own: an argument tuple is chosen, then the       *)
(* prover's and the verifier's validate_inputs are each applied to it.     *)
(***************************************************************************)

ValAmounts == {Amt0, Amt8e6, Amt16e6, Amt8e8, Amt8e9, Amt8e9Low}
ValRecipients == {R12, R19, Rep(171, 20), Rep(18, 21), <<>>}
ValVersions == {0, 1, 2, 3, 99}

ChooseInputs ==
    /\ ~vin.chosen
    /\ \E burn \in ValAmounts, mint \in ValAmounts, txn \in LegacyHashes,
          recipient \in ValRecipients, ver \in ValVersions :
         vin' = [chosen |-> TRUE, burn |-> burn, mint |-> mint, txn |-> txn,
                 recipient |-> recipient, ver |-> ver]
    /\ UNCHANGED <<w, presult, proof, vcall, vresult, vtrail, pval, vval, ptrail, others>>

ProverValidate ==
    /\ vin.chosen
    /\ pval.kind = "none"
    /\ pval' = ProverValidateInputs(vin.burn, vin.mint, vin.txn, vin.recipient, vin.ver)
    /\ UNCHANGED <<w, presult, proof, vcall, vresult, vtrail, vin, vval, ptrail, others>>

VerifierValidate ==
    /\ vin.chosen
    /\ vval.kind = "none"
    /\ vval' = VerifierValidateInputs(vin.burn, vin.mint, vin.txn, vin.recipient, vin.ver)
    /\ UNCHANGED <<w, presult, proof, vcall, vresult, vtrail, vin, pval, ptrail, others>>

NextValidate ==
    \/ ChooseInputs
    \/ ProverValidate
    \/ VerifierValidate

SpecValidate == Init /\ [][NextValidate]_vars

-----------------------------------------------------------------------------
(* Properties *)

\* the verification call is verify_burn_mint with the public values of the
\* proved tuple, except possibly those named in `altered`
Matching(altered) ==
    /\ w.called
    /\ vcall.entry = "verify_burn_mint"
    /\ vcall.given = "returned"
    /\ "burn" \in altered \/ vcall.args.burn = w.burn
    /\ "mint" \in altered \/ vcall.args.mint = w.mint
    /\ "txn_hash" \in altered \/ vcall.args.txn_hash = SubSeq(w.tx, 1, 8)
    /\ "recipient" \in altered \/ vcall.args.recipient = w.recipient
    /\ "net" \in altered \/ vcall.args.net = w.net
    /\ "chain" \in altered \/ vcall.args.chain = w.chain
    /\ "ver" \in altered \/ vcall.args.ver = w.ver

\* the public inputs the prover bound for the proved tuple
ProverPI == prover_public_inputs(w.burn, w.mint, w.tx, w.recipient, w.net, w.chain, w.ver)

\* C1: Round-trip.  Verifying a proof that prove_burn_mint returned for a
\* satisfying trace, with the matching public values, returns true.
C1_RoundTrip == (Matching({}) /\ proof.valid) => vresult = Ok("true")

\* the tier set of a commitment version, as the claim lists it
TierSet(ver) ==
    IF ver = 1 THEN {Amt8e6, Amt8e9}
    ELSE IF ver = 2 THEN {Amt8e6, Amt8e8, Amt8e9}
    ELSE {}

Acceptable(in) ==
    /\ in.ver \in {1, 2}
    /\ in.burn \in TierSet(in.ver)
    /\ in.mint = in.burn
    /\ in.txn # Rep(0, 8)
    /\ Len(in.recipient) = 20

C3_VerifierLimbs ==
    (Matching({"burn", "mint", "recipient", "net", "chain", "ver"})
        /\ vtrail.engine_inputs # <<>>)
    => LET pi == vtrail.engine_inputs[1]
       IN  /\ pi.tx_prefix_hash_0 = ProverPI.tx_prefix_hash_0
           /\ pi.tx_prefix_hash_1 = ProverPI.tx_prefix_hash_1
           /\ pi.tx_prefix_hash_2 = ProverPI.tx_prefix_hash_2
           /\ pi.tx_prefix_hash_3 = ProverPI.tx_prefix_hash_3

\* C4: The four limbs the prover places in the public inputs are the four
\* 64-bit little-endian limbs of the 32-byte hash, so a prefix hash that
\* differs in any byte gives a different limb tuple.
C4_LimbsEncodeHash ==
    proof.made =>
        /\ \A k \in 0..3 : proof.pub_inputs[6 + k] = SubSeq(w.tx, 8 * k + 1, 8 * k + 8)
        /\ \A t \in TxHashes \cup {TxB9} :
              t # w.tx =>
                 LET other == prover_public_inputs(w.burn, w.mint, t, w.recipient,
                                                   w.net, w.chain, w.ver)
                 IN  <<other.tx_prefix_hash_0, other.tx_prefix_hash_1,
                       other.tx_prefix_hash_2, other.tx_prefix_hash_3>>
                     # SubSeq(proof.pub_inputs, 6, 9)

\* prove_burn_mint got past validate_inputs and secret_to_field_element
ProverAccepted ==
    /\ w.called
    /\ ProverValidateInputs(w.burn, w.mint, SubSeq(w.tx, 1, 8), w.recipient, w.ver).kind = "ok"
    /\ secret_to_field_element(w.secret).res.kind = "ok"

\* C5: For every input the prover's validation accepts, the trace the prover
\* builds satisfies every transition constraint and every boundary assertion
\* of the prover's AIR, and proof generation succeeds.
C5_TraceSatisfiesAir ==
    ProverAccepted =>
        LET air == new_with_secret(ProverPI, secret_to_field_element(w.secret).element)
        IN  /\ TransitionsHold(air, build_trace(air))
            /\ AssertionsHold(air, build_trace(air))
            /\ presult.kind = "ok"

\* C6: The burn_amount and mint_amount public inputs, and trace register r0,
\* carry the caller's u64 amounts exactly, in the prover and in the verifier.
C6_AmountsExact ==
    /\ proof.made =>
          /\ proof.pub_inputs[1] = w.burn
          /\ proof.pub_inputs[2] = w.mint
          /\ proof.trace[0][1] = w.burn
    /\ (vcall.entry = "verify_burn_mint" /\ vtrail.engine_inputs # <<>>) =>
          /\ vtrail.engine_inputs[1].burn_amount = vcall.args.burn
          /\ vtrail.engine_inputs[1].mint_amount = vcall.args.mint

InputChecks == {"tier", "mint", "version", "txn_hash", "recipient", "secret"}

\* C8: prove_burn_mint rejects every secret shorter than 32 bytes with an
\* input-validation error, and no proof is generated.
C8_ShortSecretRejected ==
    (w.called /\ Len(w.secret) < 32) =>
        /\ presult.kind = "err"
        /\ presult.check \in InputChecks
        /\ ~proof.made

\* C9: Every verification entry point derives the recipient-hash public input
\* itself from a recipient address: whatever record reaches the engine
\* carries the hash of an address the caller passed.
C9_RecipientHashDerived ==
    vtrail.engine_inputs # <<>> =>
        /\ vtrail.has_address
        /\ \A i \in 1..Len(vtrail.engine_inputs) :
              vtrail.engine_inputs[i].recipient_hash
                  = FromU32(verifier_compute_recipient_hash(vtrail.address))

VerifierAccepted ==
    VerifierValidateInputs(vcall.args.burn, vcall.args.mint, vcall.args.txn_hash,
                           vcall.args.recipient, vcall.args.ver).kind = "ok"

ProverAir == new_with_secret(ProverPI, secret_to_field_element(w.secret).element)

\* the domain tags a digest over the recipient address may carry
RecipientTags ==
    {TagRecipient, TagEthereumRecipient \o TagBridge,
     TagRecipient \o TagEthereumRecipient \o TagBridge}

\* C12: The recipient-hash public input is the first 4 bytes of the 32-byte
\* digest that compute_commitment folds into the commitment, and that digest
\* is computed over the 20-byte recipient address with the domain tags.
C12_RecipientDigest ==
    proof.made =>
        LET recipient_hash_full == air_compute_recipient_hash(ProverAir)
        IN  /\ ProverPI.recipient_hash = FromU32(First4(recipient_hash_full))
            /\ recipient_hash_full \in {Keccak256(w.recipient \o tags) : tags \in RecipientTags}

-----------------------------------------------------------------------------
(***************************************************************************)
(* compute_commitment on its own: two public-input records that differ in  *)
(* exactly one field are chosen, then the commitment of each is computed   *)
(* under the same secret.                                                  *)
(***************************************************************************)

PublicInputFields ==
    {"burn_amount", "mint_amount", "txn_hash", "recipient_hash", "state",
     "tx_prefix_hash_0", "tx_prefix_hash_1", "tx_prefix_hash_2", "tx_prefix_hash_3",
     "network_id", "target_chain_id", "commitment_version"}

CommitRecords ==
    {prover_public_inputs(burn, burn, tx, R12, nc[1], nc[2], 1) :
        burn \in {Amt8e6, Amt8e9}, tx \in {TxS1, TxB5}, nc \in {<<4, 42161>>, <<5, 1>>}}

CommitAltValues == {FromU32(U32(7)), FromU32(U32(67890))}

ChooseRecords ==
    /\ ~hin.chosen
    /\ \E a \in CommitRecords, field \in PublicInputFields, v \in CommitAltValues,
          secret \in {S32, S1234} :
         /\ a[field] # v
         /\ hin' = [chosen |-> TRUE, a |-> a, b |-> [a EXCEPT ![field] = v],
                    field |-> field, secret |-> secret_to_field_element(secret).element]
    /\ UNCHANGED <<w, presult, proof, vcall, vresult, vtrail, vin, pval, vval, ptrail, hout, scan, now, merkle, pkg>>

ComputeCommitments ==
    /\ hin.chosen
    /\ ~hout.done
    /\ LET air_a == new_with_secret(hin.a, hin.secret)
           air_b == new_with_secret(hin.b, hin.secret)
       IN  hout' = [done |-> TRUE,
                    preimage_a |-> commitment_preimage(air_a, hin.secret),
                    preimage_b |-> commitment_preimage(air_b, hin.secret),
                    commitment_a |-> compute_commitment(air_a, hin.secret),
                    commitment_b |-> compute_commitment(air_b, hin.secret)]
    /\ UNCHANGED <<w, presult, proof, vcall, vresult, vtrail, vin, pval, vval, ptrail, hin, scan, now, merkle, pkg>>

NextCommit ==
    \/ ChooseRecords
    \/ ComputeCommitments

SpecCommit == Init /\ [][NextCommit]_vars

\* C13 as stated: two public-input records that differ in any single field,
\* under the same secret, have different commitment pre-images (so different
\* commitments, Keccak256 taken as injective).
C13_EveryFieldBound == hout.done => hout.preimage_a # hout.preimage_b

\* C13 amended: two public-input records that differ in a single field other
\* than the legacy txn_hash and state, under the same secret, have different
\* commitment pre-images.
C13_PreimageFieldsBound ==
    (hout.done /\ hin.field \notin {"txn_hash", "state"})
    => hout.preimage_a # hout.preimage_b

C13_Witness ==
    /\ hout.done
    /\ hin.field = "network_id"
    /\ hout.preimage_a # hout.preimage_b
    /\ hout.commitment_a # hout.commitment_b

-----------------------------------------------------------------------------

BatchEntries == {"batch_verify", "verify_batch"}

\* C14: Batch verification of n items returns n per-item verdicts, the i-th
\* being the verdict of verifying item i on its own, whatever the other items
\* are.
C14_BatchPerItem ==
    vcall.entry \in BatchEntries =>
        /\ vresult.kind = "ok"
        /\ Len(vresult.list) = Len(vcall.args)
        /\ \A i \in 1..Len(vcall.args) :
              LET single == verify_with_public_inputs(vcall.args[i][1], vcall.args[i][2])
              IN  single.kind = "ok" => vresult.list[i] = single.value

\* the tier and format checks of validate_inputs, on a public-input record
PublicInputsWellFormed(pi) ==
    \E ver \in {1, 2} :
        /\ pi.commitment_version = FromU32(U32(ver))
        /\ pi.burn_amount \in {FromU32(AsU32(a)) : a \in TierSet(ver)}
        /\ pi.mint_amount = pi.burn_amount

\* C15: verify_with_public_inputs and the batch entry points reject, before
\* the engine is invoked, every record whose burn amount is outside the
\* version's tier set, whose mint differs from its burn, or whose
\* commitment_version is unsupported.
C15_FormatChecksBeforeEngine ==
    vcall.entry \in BatchEntries \cup {"verify_with_public_inputs"} =>
        \A i \in 1..Len(vtrail.engine_inputs) :
            PublicInputsWellFormed(vtrail.engine_inputs[i])

\* C16: For inputs that pass validation, verify_burn_mint answers true when
\* the engine accepts, false when the engine rejects a well-formed proof, and
\* an error, not the verdict false, when the proof is malformed.
C16_EngineOutcomeMapping ==
    (vcall.entry = "verify_burn_mint" /\ vtrail.engine_results # <<>>) =>
        LET e == vtrail.engine_results[1]
        IN  /\ e.kind = "ok" => vresult = Ok("true")
            /\ (e.kind = "err" /\ e.check = "engine") => vresult = Ok("false")
            /\ (e.kind = "err" /\ e.check = "malformed") => vresult.kind = "err"

\* every error the input validation of prove_burn_mint can return
ValidationErrors ==
    {e \in {ProverValidateInputs(burn, mint, txn, recipient, ver) :
                burn \in ValAmounts, mint \in ValAmounts, txn \in LegacyHashes,
                recipient \in ValRecipients, ver \in ValVersions}
           \cup {secret_to_field_element(secret).res : secret \in Secrets} :
        e.kind = "err"}

\* C17: An engine failure during prove_burn_mint is returned as an error whose
\* variant differs from the variant of every input-validation error.
C17_EngineErrorDistinct ==
    (presult.kind = "err" /\ presult.check = "engine") =>
        \A e \in ValidationErrors : presult.variant # e.variant

\* the steps of a call, as a set
StepsRun == {ptrail[i] : i \in 1..Len(ptrail)}

\* C18: In prove_burn_mint the trace is built and the engine called only
\* after all input validation has succeeded: when a validation check fails
\* the error is returned at once, with build_trace and prove not invoked.
C18_ValidationBeforeTrace ==
    /\ (presult.kind = "err" /\ presult.check \in InputChecks) =>
          /\ "build_trace" \notin StepsRun
          /\ "prove" \notin StepsRun
          /\ ~proof.made
    /\ \A i \in 1..Len(ptrail) :
          ptrail[i] \in {"build_trace", "prove"} =>
              /\ \E j \in 1..(i - 1) : ptrail[j] = "validate_inputs"
              /\ \E j \in 1..(i - 1) : ptrail[j] = "secret_to_field_element"

C18_Witness ==
    /\ presult.kind = "err" /\ presult.check = "recipient"
    /\ ptrail = <<"validate_inputs">>
    /\ ~proof.made

\* C19: The trace build_trace produces has width 7 and exactly 64 rows;
\* registers r0..r3, r5 and r6 hold the same value in every row; r4 is 0 in
\* rows 0..15, 1 in rows 16..31, 2 in rows 32..47 and 3 in rows 48..63.
C19_TraceShape ==
    (proof.made /\ vcall.entry = "none") =>     \* on return; no later call touches the proof
        /\ DOMAIN proof.trace = 0..63
        /\ \A i \in 0..63 :
              /\ Len(proof.trace[i]) = 7
              /\ \A k \in {1, 2, 3, 4, 6, 7} : proof.trace[i][k] = proof.trace[0][k]
              /\ proof.trace[i][5] = FromU32(U32(i \div 16))

C19_Witness ==
    /\ proof.made
    /\ proof.trace[15][5] = FromU32(U32(0)) /\ proof.trace[16][5] = FromU32(U32(1))
    /\ proof.trace[47][5] = FromU32(U32(2)) /\ proof.trace[48][5] = FromU32(U32(3))

-----------------------------------------------------------------------------
(***************************************************************************)
(* The state column r4 of an arbitrary 64-row trace, walked row by row as  *)
(* the constraint evaluator does: the first row is chosen, then each next  *)
(* row, and T5 (validate_state_transitions) is evaluated on each pair.     *)
(* The walk ends at the first pair that violates T5.                       *)
(***************************************************************************)

\* field addition, through subtraction of the negation
FAdd(a, b) == FSub(a, FSub(FZero, b))

StateValue(k) == FromU32(U32(k))

\* the values a row may hold after `current`
NextStateValues(current) ==
    {current, FAdd(current, FOne), FAdd(current, StateValue(2)), FSub(current, FOne),
     StateValue(0), StateValue(3)}

\* next holds or is exactly one more than current, as integers
HoldsOrAdvances(current, next) ==
    \E k \in 0..(TraceLength - 1) :
        current = StateValue(k) /\ next \in {StateValue(k), StateValue(k + 1)}

StartScan ==
    /\ ~scan.started
    /\ \E first \in {StateValue(0), StateValue(1), StateValue(3), FSub(FZero, FOne)} :
         scan' = [started |-> TRUE, step |-> 0, first |-> first, r4 |-> first,
                  t5 |-> TRUE, steady |-> TRUE,
                  inrange |-> first \in {StateValue(k) : k \in 0..3}]
    /\ UNCHANGED <<w, presult, proof, vcall, vresult, vtrail, vin, pval, vval, ptrail, hin, hout, now, merkle, pkg>>

NextRow ==
    /\ scan.started
    /\ scan.t5
    /\ scan.step < TraceLength - 1
    /\ \E next \in NextStateValues(scan.r4) :
         scan' = [scan EXCEPT
                    !.step = @ + 1,
                    !.r4 = next,
                    !.t5 = IsZeroValue(validate_state_transitions(scan.r4, next)),
                    !.steady = @ /\ HoldsOrAdvances(scan.r4, next),
                    !.inrange = @ /\ next \in {StateValue(k) : k \in 0..3}]
    /\ UNCHANGED <<w, presult, proof, vcall, vresult, vtrail, vin, pval, vval, ptrail, hin, hout, now, merkle, pkg>>

NextScan ==
    \/ StartScan
    \/ NextRow

SpecScan == Init /\ [][NextScan]_vars

\* the boundary assertions get_assertions places on register 4
StateAssertions ==
    LET assertions == get_assertions(AirNew(CHOOSE pi \in CommitRecords : TRUE))
    IN  {assertions[k] : k \in {j \in 1..Len(assertions) : assertions[j][1] = 4}}

\* the walk has covered all 64 rows, T5 held on every pair, and the boundary
\* assertions on r4 hold
ValidStateColumn ==
    /\ scan.started
    /\ scan.step = TraceLength - 1
    /\ scan.t5
    /\ \A a \in StateAssertions :
          /\ a[2] = 0 => scan.first = a[3]
          /\ a[2] = TraceLength - 1 => scan.r4 = a[3]

\* C20: State monotonicity.  In every 64-row trace that satisfies T5 on every
\* consecutive row pair and the boundary assertions r4[0] = 0 and r4[63] = 3,
\* r4 holds or advances by exactly 1 at each step and every r4 value lies in
\* {0, 1, 2, 3}.
C20_StateMonotone == ValidStateColumn => (scan.steady /\ scan.inrange)

C20_Witness ==
    /\ ValidStateColumn
    /\ scan.first = StateValue(0) /\ scan.r4 = StateValue(3)
    /\ scan.steady /\ scan.inrange

-----------------------------------------------------------------------------
(***************************************************************************)
(* The derivations on their own: a public-input record and a secret are    *)
(* chosen, then nullifier, commitment and trace are derived from them      *)
(* twice, while the system clock advances at any moment.                   *)
(***************************************************************************)

MaxClock == 2

DeriveSecrets == {secret_to_field_element(s).element : s \in {S32, S1234}}

ChooseDerivation ==
    /\ ~hin.chosen
    /\ \E pi \in CommitRecords, secret \in DeriveSecrets :
         hin' = [chosen |-> TRUE, public_inputs |-> pi, secret |-> secret]
    /\ hout' = [done |-> FALSE, runs |-> <<>>, generated |-> <<>>]
    /\ UNCHANGED <<w, presult, proof, vcall, vresult, vtrail, vin, pval, vval, ptrail, scan, now, merkle, pkg>>

\* the system clock moves on
Tick ==
    /\ now < MaxClock
    /\ now' = now + 1
    /\ UNCHANGED <<w, presult, proof, vcall, vresult, vtrail, vin, pval, vval, ptrail, hin, hout, scan, merkle, pkg>>

\* one run: the AIR is constructed and the three derivations are made
Derive ==
    /\ hin.chosen
    /\ Len(hout.runs) < 2
    /\ LET air == new_with_secret(hin.public_inputs, hin.secret)
       IN  hout' = [hout EXCEPT !.runs = Append(@,
                      [at |-> now,
                       nullifier |-> compute_nullifier(air, air.secret),
                       commitment |-> compute_commitment(air, air.secret),
                       trace |-> build_trace(air),
                       transaction_hash |-> compute_transaction_hash(air)])]
    /\ UNCHANGED <<w, presult, proof, vcall, vresult, vtrail, vin, pval, vval, ptrail, hin, scan, now, merkle, pkg>>

\* generate_burn_mint_trace called with the values of the public inputs
GenerateTrace ==
    /\ hin.chosen
    /\ ~hout.done
    /\ LET pi == hin.public_inputs
           air == new_with_secret(pi, hin.secret)
       IN  \E table \in generate_burn_mint_trace(pi.burn_amount, pi.mint_amount, pi.txn_hash, pi.recipient_hash, hin.secret, air) :
             hout' = [hout EXCEPT !.done = TRUE, !.generated = table]
    /\ UNCHANGED <<w, presult, proof, vcall, vresult, vtrail, vin, pval, vval, ptrail, hin, scan, now, merkle, pkg>>

NextDerive ==
    \/ ChooseDerivation
    \/ Tick
    \/ Derive
    \/ GenerateTrace

SpecDerive == Init /\ [][NextDerive]_vars

-----------------------------------------------------------------------------

\* C22: Public-input serialisation.  to_elements yields exactly 12 field
\* elements in the order burn_amount, mint_amount, network_id,
\* target_chain_id, commitment_version, tx_prefix_hash_0..3, recipient_hash,
\* txn_hash, state.
C22_SerialisationOrder ==
    proof.made =>
        LET pi == ProverPI
        IN  /\ Len(to_elements(pi)) = 12
            /\ proof.pub_inputs = to_elements(pi)
            /\ to_elements(pi) =
                 <<pi.burn_amount, pi.mint_amount, pi.network_id, pi.target_chain_id,
                   pi.commitment_version, pi.tx_prefix_hash_0, pi.tx_prefix_hash_1,
                   pi.tx_prefix_hash_2, pi.tx_prefix_hash_3, pi.recipient_hash,
                   pi.txn_hash, pi.state>>

-----------------------------------------------------------------------------

\* C23: Both AIR constructors, new_with_secret and Air::new, declare seven
\* transition constraints, as many as evaluate_transition writes, and declare
\* as many boundary assertions as get_assertions returns.
C23_DeclaredCounts ==
    proof.made =>
        \A air \in {ProverAir, AirNew(ProverPI)} :
            /\ air.num_constraints = 7
            /\ air.num_constraints = Len(evaluate_transition(air, proof.trace[0], proof.trace[1]))
            /\ air.num_assertions = Len(get_assertions(air))

-----------------------------------------------------------------------------

\* staying in the same state, or one of the advances 0 -> 1, 1 -> 2, 2 -> 3
StayOrAdvance(current, next) ==
    \/ next = current
    \/ \E k \in 0..2 : current = StateValue(k) /\ next = StateValue(k + 1)

\* C24: validate_state_transitions(current, next) evaluates to zero exactly
\* for staying in the same state and for the advances 0 -> 1, 1 -> 2 and
\* 2 -> 3; it is non-zero for skipping a state, for going backwards and for
\* exceeding state 3 (for example 3 -> 4).  Stated for current in {0, 1, 2, 3}.
C24_StateTransitionExact ==
    (scan.started /\ scan.step = 1 /\ scan.first \in {StateValue(k) : k \in 0..3}) =>
        (IsZeroValue(validate_state_transitions(scan.first, scan.r4))
            <=> StayOrAdvance(scan.first, scan.r4))

-----------------------------------------------------------------------------

\* C25: secret_to_field_element never panics: for every secret shorter than
\* 8 bytes (lengths 4 to 7 included) it returns an error value, and for every
\* longer secret it returns the first 4 bytes read little-endian as a field
\* element.
C25_SecretConversionTotal ==
    "secret_to_field_element" \in StepsRun =>
        LET converted == secret_to_field_element(w.secret)
        IN  /\ converted.res.kind # "panic"
            /\ Len(w.secret) < 8 => converted.res.kind = "err"
            /\ Len(w.secret) >= 8 =>
                  /\ converted.res.kind = "ok"
                  /\ converted.element = FromU32(SubSeq(w.secret, 1, 4))

-----------------------------------------------------------------------------

\* C26: generate_burn_mint_trace returns a 7-column, 64-row trace whose row i
\* holds the values it computed for that row: the same trace build_trace
\* produces for the same public inputs and secret.
C26_GeneratedTraceIsBuilt ==
    (hin.chosen /\ hout.done) =>
        /\ DOMAIN hout.generated = 0..(TraceLength - 1)
        /\ \A step \in DOMAIN hout.generated : Len(hout.generated[step]) = 7
        /\ hout.generated = build_trace(new_with_secret(hin.public_inputs, hin.secret))

-----------------------------------------------------------------------------
(***************************************************************************)
(* The Merkle tree (proof/merkle.rs).  SHA-256 is modelled like Keccak256, *)
(* by a deterministic 32-byte mixing of the pre-image with multipliers of  *)
(* its own.  A tree is built from a list of leaves, a proof is generated   *)
(* for one leaf index, and the proof is verified against the tree.         *)
(***************************************************************************)

Sha256(pre) ==
    LET a == Absorb(pre, 239, 1, Len(pre))
        b == Absorb(pre, 233, 1, Len(pre))
    IN  [j \in 1..32 |->
            CASE j = 1 -> a % 256
              [] j = 2 -> a \div 256
              [] j = 3 -> b % 256
              [] j = 4 -> b \div 256
              [] OTHER -> ((a + j * b) * j) % 256]

\* MerkleNode::hash_data
hash_data(data) == Sha256(data)

\* MerkleNode::leaf
MerkleNodeLeaf(data) == [hash |-> hash_data(data), level |-> 0, index |-> 0]

\* MerkleNode::internal
MerkleNodeInternal(left, right) ==
    [hash |-> Sha256(left.hash \o right.hash), level |-> left.level + 1,
     index |-> left.index \div 2]

\* MerkleTree::calculate_depth
RECURSIVE calculate_depth(_)
calculate_depth(num_leaves) ==
    IF num_leaves <= 1 THEN 0 ELSE 1 + calculate_depth((num_leaves + 1) \div 2)

\* MerkleTree::build_level (vectors are 0-based in the source, 1-based here)
build_level(prev_level, level) ==
    [k \in 1..((Len(prev_level) + 1) \div 2) |->
        LET i == 2 * (k - 1)
            left == prev_level[i + 1]
            right == IF i + 1 < Len(prev_level) THEN prev_level[i + 2] ELSE prev_level[i + 1]
        IN  [MerkleNodeInternal(left, right) EXCEPT !.index = i \div 2]]

\* MerkleTree::new, the loop `for level in 0..depth`: the levels pushed to nodes
RECURSIVE build_levels(_, _, _)
build_levels(current_level, level, depth) ==
    IF level >= depth THEN <<>>
    ELSE LET next_level == build_level(current_level, level + 1)
         IN  <<next_level>> \o build_levels(next_level, level + 1, depth)

\* MerkleTree::new
MerkleTreeNew(leaves) ==
    IF leaves = <<>> THEN [res |-> Err("MerkleError", "EmptyLeaves", ""), tree |-> <<>>]
    ELSE LET num_leaves == Len(leaves)
             depth == calculate_depth(num_leaves)
             leaf_level == [i \in 1..num_leaves |->
                               [MerkleNodeLeaf(leaves[i]) EXCEPT !.index = i - 1]]
             nodes == <<leaf_level>> \o build_levels(leaf_level, 0, depth)
         IN  [res |-> Ok("tree"),
              tree |-> [root |-> nodes[depth + 1][1], depth |-> depth,
                        num_leaves |-> num_leaves, nodes |-> nodes]]

\* MerkleTree::generate_proof, the loop `for level in 0..self.depth`
RECURSIVE proof_loop(_, _, _, _)
proof_loop(tree, level, current_index, so_far) ==
    IF level >= tree.depth THEN so_far
    ELSE LET level_nodes == tree.nodes[level + 1]
             sibling_index == IF current_index % 2 = 0 THEN current_index + 1
                              ELSE current_index - 1
             extended == IF sibling_index < Len(level_nodes)
                         THEN [so_far EXCEPT
                                 !.siblings = Append(@, level_nodes[sibling_index + 1].hash),
                                 !.path = Append(@, current_index % 2 = 0)]
                         ELSE so_far
         IN  proof_loop(tree, level + 1, current_index \div 2, extended)

\* MerkleTree::generate_proof
generate_proof(tree, leaf_index) ==
    IF leaf_index >= tree.num_leaves
    THEN [res |-> Err("MerkleError", "InvalidLeafIndex", ""), proof |-> <<>>]
    ELSE [res |-> Ok("proof"),
          proof |-> proof_loop(tree, 0, leaf_index,
                               [leaf_index |-> leaf_index, siblings |-> <<>>, path |-> <<>>])]

\* MerkleTree::verify_proof, the loop over proof.path: the hash reached, or
\* <<>> when the siblings run out
RECURSIVE follow_path(_, _, _)
follow_path(merkle_proof, i, current_hash) ==
    IF i > Len(merkle_proof.path) THEN current_hash
    ELSE IF i > Len(merkle_proof.siblings) THEN <<>>
    ELSE LET sibling_hash == merkle_proof.siblings[i]
         IN  follow_path(merkle_proof, i + 1,
                         IF merkle_proof.path[i] THEN Sha256(current_hash \o sibling_hash)
                         ELSE Sha256(sibling_hash \o current_hash))

\* MerkleTree::verify_proof
verify_proof(tree, leaf_data, merkle_proof) ==
    IF merkle_proof.leaf_index >= tree.num_leaves THEN Ok("false")
    ELSE LET reached == follow_path(merkle_proof, 1, hash_data(leaf_data))
         IN  IF reached = tree.root.hash THEN Ok("true") ELSE Ok("false")

MaxLeaves == 4

LeafData == {<<1>>, <<2, 2>>}

LeafLists == UNION {[1..n -> LeafData] : n \in 1..MaxLeaves}

NewTree ==
    /\ ~merkle.built
    /\ \E leaves \in LeafLists :
         merkle' = [built |-> TRUE, leaves |-> leaves, tree |-> MerkleTreeNew(leaves).tree,
                    proved |-> FALSE, proof |-> <<>>, verified |-> FALSE,
                    verdict |-> NoResult]
    /\ UNCHANGED <<w, presult, proof, vcall, vresult, vtrail, vin, pval, vval, ptrail, hin, hout, scan, now, pkg>>

GenerateProof ==
    /\ merkle.built
    /\ ~merkle.proved
    /\ \E leaf_index \in 0..(Len(merkle.leaves) - 1) :
         merkle' = [merkle EXCEPT !.proved = TRUE,
                                  !.proof = generate_proof(merkle.tree, leaf_index).proof]
    /\ UNCHANGED <<w, presult, proof, vcall, vresult, vtrail, vin, pval, vval, ptrail, hin, hout, scan, now, pkg>>

\* verify_proof on the leaf the proof was generated for
VerifyProof ==
    /\ merkle.built
    /\ merkle.proved
    /\ ~merkle.verified
    /\ merkle' = [merkle EXCEPT
                    !.verified = TRUE,
                    !.verdict = verify_proof(merkle.tree,
                                             merkle.leaves[merkle.proof.leaf_index + 1],
                                             merkle.proof)]
    /\ UNCHANGED <<w, presult, proof, vcall, vresult, vtrail, vin, pval, vval, ptrail, hin, hout, scan, now, pkg>>

NextMerkle ==
    \/ NewTree
    \/ GenerateProof
    \/ VerifyProof

SpecMerkle == Init /\ [][NextMerkle]_vars

\* C27: Merkle inclusion round-trip.  For every non-empty list of leaves, of
\* any length, and every index i below the number of leaves, the proof
\* returned by generate_proof(i) makes verify_proof accept leaf i against the
\* tree's root.
C27_MerkleRoundTrip ==
    (merkle.built /\ merkle.verified) => merkle.verdict = Ok("true")

-----------------------------------------------------------------------------

\* the value get_assertions asserts for a column at row 0
AssertedAtRowZero(air, column) ==
    LET assertions == get_assertions(air)
    IN  {assertions[k][3] : k \in {j \in 1..Len(assertions) :
                                      assertions[j][1] = column /\ assertions[j][2] = 0}}

\* C28: For the same public inputs, the expected nullifier (r5 at row 0) and
\* the expected commitment (r6 at row 0) asserted by the AIR instance the
\* verifier constructs equal those asserted by the AIR instance the prover
\* constructed, for every secret the prover may have used.
C28_VerifierAssertsProverValues ==
    proof.made =>
        \A column \in {5, 6} :
            AssertedAtRowZero(AirNew(ProverPI), column) = AssertedAtRowZero(ProverAir, column)

-----------------------------------------------------------------------------
(***************************************************************************)
(* CompleteProofPackage (proof_data_schema.rs): a package is created, then *)
(* add_stark_proof and add_eldernode_verification are called in any order  *)
(* and any number of times, and the two contract accessors are called at   *)
(* any moment.  A panic ends the behaviour.                                *)
(***************************************************************************)

None == [some |-> FALSE, value |-> ""]
Some(v) == [some |-> TRUE, value |-> v]

\* what an accessor returned: kind is "None" / "Some" / "Ok" / "Err", or "panic"
Returned(call, kind) == [call |-> call, kind |-> kind]
NothingReturned == Returned("none", "none")

\* CompleteProofPackage::new
CompleteProofPackageNew(stark_proof_data) ==
    [stark_proof_data |-> stark_proof_data,
     stark_proof |-> None,
     eldernode_verification |-> None,
     status |-> "DataReady",
     timestamps |-> [stark_proof_generated |-> None, eldernode_verified |-> None]]

\* CompleteProofPackage::add_stark_proof
add_stark_proof(package, stark_proof) ==
    [package EXCEPT !.stark_proof = Some(stark_proof),
                    !.timestamps.stark_proof_generated = Some(now),
                    !.status = "StarkProofReady"]

\* CompleteProofPackage::add_eldernode_verification
add_eldernode_verification(package, eldernode_verification) ==
    [package EXCEPT !.eldernode_verification = Some(eldernode_verification),
                    !.timestamps.eldernode_verified = Some(now),
                    !.status = "Complete"]

\* CompleteProofPackage::is_ready_for_contract
is_ready_for_contract(package) == package.status = "Complete"

\* Option::unwrap on both parts, as the two accessors do
UnwrapsPanic(package) == ~package.stark_proof.some \/ ~package.eldernode_verification.some

\* CompleteProofPackage::get_contract_submission_data
get_contract_submission_data(package) ==
    IF ~is_ready_for_contract(package) THEN Returned("get_contract_submission_data", "None")
    ELSE IF UnwrapsPanic(package) THEN Returned("get_contract_submission_data", "panic")
    ELSE Returned("get_contract_submission_data", "Some")

\* CompleteProofPackage::export_contract_data
export_contract_data(package) ==
    IF ~is_ready_for_contract(package) THEN Returned("export_contract_data", "Err")
    ELSE IF UnwrapsPanic(package) THEN Returned("export_contract_data", "panic")
    ELSE Returned("export_contract_data", "Ok")

MaxCalls == 3

PackageData == {"standard_burn", "large_burn"}
PackageProofs == {"dummy", "generated"}
PackageVerifications == {"dummy", "consensus"}

Running == pkg.created /\ pkg.last.kind # "panic"

NewPackage ==
    /\ ~pkg.created
    /\ \E stark_proof_data \in PackageData :
         pkg' = [created |-> TRUE, package |-> CompleteProofPackageNew(stark_proof_data),
                 calls |-> 0, last |-> NothingReturned]
    /\ UNCHANGED <<w, presult, proof, vcall, vresult, vtrail, vin, pval, vval, ptrail, hin, hout, scan, now, merkle>>

AddStarkProof ==
    /\ Running
    /\ pkg.calls < MaxCalls
    /\ \E stark_proof \in PackageProofs :
         pkg' = [pkg EXCEPT !.package = add_stark_proof(@, stark_proof), !.calls = @ + 1]
    /\ UNCHANGED <<w, presult, proof, vcall, vresult, vtrail, vin, pval, vval, ptrail, hin, hout, scan, now, merkle>>

AddEldernodeVerification ==
    /\ Running
    /\ pkg.calls < MaxCalls
    /\ \E eldernode_verification \in PackageVerifications :
         pkg' = [pkg EXCEPT !.package = add_eldernode_verification(@, eldernode_verification),
                            !.calls = @ + 1]
    /\ UNCHANGED <<w, presult, proof, vcall, vresult, vtrail, vin, pval, vval, ptrail, hin, hout, scan, now, merkle>>

GetContractSubmissionData ==
    /\ Running
    /\ pkg' = [pkg EXCEPT !.last = get_contract_submission_data(pkg.package)]
    /\ UNCHANGED <<w, presult, proof, vcall, vresult, vtrail, vin, pval, vval, ptrail, hin, hout, scan, now, merkle>>

ExportContractData ==
    /\ Running
    /\ pkg' = [pkg EXCEPT !.last = export_contract_data(pkg.package)]
    /\ UNCHANGED <<w, presult, proof, vcall, vresult, vtrail, vin, pval, vval, ptrail, hin, hout, scan, now, merkle>>

NextPackage ==
    \/ NewPackage
    \/ Tick
    \/ AddStarkProof
    \/ AddEldernodeVerification
    \/ GetContractSubmissionData
    \/ ExportContractData

SpecPackage == Init /\ [][NextPackage]_vars

\* C29: After any sequence of add_stark_proof and add_eldernode_verification
\* calls on a CompleteProofPackage, whenever is_ready_for_contract is true
\* both the STARK proof and the Eldernode verification are present, so
\* get_contract_submission_data and export_contract_data return a result and
\* never panic.
C29_ReadyImpliesBothPresent ==
    pkg.created =>
        /\ is_ready_for_contract(pkg.package) =>
              (pkg.package.stark_proof.some /\ pkg.package.eldernode_verification.some)
        /\ pkg.last.kind # "panic"

-----------------------------------------------------------------------------
(***************************************************************************)
(* compute_nullifier on its own: two burns are chosen that differ in       *)
(* exactly one public-input field or in the secret, then the nullifier of  *)
(* each is computed.                                                       *)
(***************************************************************************)

ChooseBurns ==
    /\ ~hin.chosen
    /\ \E a \in CommitRecords, secret \in DeriveSecrets :
         \/ \E field \in PublicInputFields, v \in CommitAltValues :
              /\ a[field] # v
              /\ hin' = [chosen |-> TRUE, a |-> a, b |-> [a EXCEPT ![field] = v],
                         secret_a |-> secret, secret_b |-> secret, changed |-> field]
         \/ \E other \in DeriveSecrets \ {secret} :
              hin' = [chosen |-> TRUE, a |-> a, b |-> a,
                      secret_a |-> secret, secret_b |-> other, changed |-> "secret"]
    /\ UNCHANGED <<w, presult, proof, vcall, vresult, vtrail, vin, pval, vval, ptrail, hout, scan, now, merkle, pkg>>

ComputeNullifiers ==
    /\ hin.chosen
    /\ ~hout.done
    /\ LET air_a == new_with_secret(hin.a, hin.secret_a)
           air_b == new_with_secret(hin.b, hin.secret_b)
       IN  hout' = [done |-> TRUE,
                    preimage_a |-> nullifier_preimage(air_a, air_a.secret),
                    preimage_b |-> nullifier_preimage(air_b, air_b.secret),
                    nullifier_a |-> compute_nullifier(air_a, air_a.secret),
                    nullifier_b |-> compute_nullifier(air_b, air_b.secret)]
    /\ UNCHANGED <<w, presult, proof, vcall, vresult, vtrail, vin, pval, vval, ptrail, hin, scan, now, merkle, pkg>>

NextNullifier ==
    \/ ChooseBurns
    \/ ComputeNullifiers

SpecNullifier == Init /\ [][NextNullifier]_vars

\* C30: The nullifier depends only on the secret and the burn amount: two
\* burns with the same secret and the same burn amount yield the same
\* nullifier whatever their tx prefix hash, recipient, network_id,
\* target_chain_id or commitment_version, and changing the secret or the burn
\* amount changes the nullifier pre-image.
C30_NullifierOfSecretAndAmount ==
    (hin.chosen /\ hout.done) =>
        /\ hin.changed \notin {"secret", "burn_amount"} =>
              /\ hout.preimage_a = hout.preimage_b
              /\ hout.nullifier_a = hout.nullifier_b
        /\ hin.changed \in {"secret", "burn_amount"} => hout.preimage_a # hout.preimage_b

C30_Witness ==
    /\ hin.chosen
    /\ hout.done
    /\ hin.changed = "network_id"
    /\ hin.a.network_id # hin.b.network_id
    /\ hin.secret_a = hin.secret_b
    /\ hin.a.burn_amount = hin.b.burn_amount
    /\ hout.nullifier_a = hout.nullifier_b

====
